---- MODULE Spec2Model ----
(***************************************************************************)
(* Model of the upload core of teldrive-ui:                                *)
(*   - the upload state store   (src/src/utils/stores/upload.ts, the       *)
(*     concurrent version with activeUploads, lines 154-316),              *)
(*   - the admission effect of the Upload component and the chunked        *)
(*     transfer engine uploadFile / uploadChunk                            *)
(*     (src/src/hooks/use-settings.ts).                                    *)
(*                                                                         *)
(* One TLA+ step is one JavaScript task: an event handler together with    *)
(* every promise continuation (microtask) it triggers.  Network requests   *)
(* are in flight between steps and settle in steps of their own.           *)
(***************************************************************************)
EXTENDS Integers, Sequences, FiniteSets, TLC

\* ------------------------------------------------------------------ bounds
MaxFiles == 2            \* task ids ever created in one behaviour
maxConcurrentFiles == 1  \* settings.maxConcurrentFiles
uploadConcurrency == 1   \* settings.uploadConcurrency
chunkSize == 2           \* settings.splitFileSize, in abstract bytes
MaxFileSize == 4         \* largest file.size enqueued (files of size 0 are filtered out)

MaxIdSize == 12          \* largest file.size of an upload attempt
MaxTime == 2             \* largest file.lastModified of an upload attempt
MaxUserId == 2           \* largest session.userId
MaxResumeSize == 6       \* largest file.size of the single-file runs
MaxNow == 3              \* the clock stops here
MaxBatch == 3            \* most files selected for one batch check

Ids == 1..MaxFiles
FileSizes == 1..MaxFileSize

\* FileUploadStatus
NOT_STARTED == "NOT_STARTED"
UPLOADING == "UPLOADING"
UPLOADED == "UPLOADED"
CANCELLED == "CANCELLED"
FAILED == "FAILED"
FileUploadStatus == {NOT_STARTED, UPLOADING, UPLOADED, CANCELLED, FAILED}

VARIABLES
  filesIds,       \* state.filesIds: the ordered id list
  fileMap,        \* state.fileMap: id -> [status, progress]
  currentFileId,  \* state.currentFileId (0 is the empty string)
  activeUploads,  \* state.activeUploads
  aborted,        \* ids whose AbortController has been aborted
  nextId,         \* number of ids handed out so far
  snap,           \* the render whose passive effect has not run yet: <<fileIds, activeUploads.size>>
  pc,             \* id -> where that id's uploadFile call is suspended
  parts,          \* id -> the part transfers of that call, by sequence number
  timer,          \* id -> the progress interval of that call is running
  toasts,         \* the toast.error calls of the last step: <<id, err.message>>
  attempt,        \* two upload attempts: <<path, file.name, file.size, file.lastModified, userId>> each
  resumeIds,      \* the uploadId computed for each of the two attempts
  now,            \* Date.now()
  destination,    \* the file names the destination holds at the path
  cache,          \* fileExistenceCache.cache: name -> [result, timestamp, expires]
  batch,          \* the optimizedBatchFileCheck call awaiting its listing, or <<>>
  checked,        \* what the optimizedBatchFileCheck call of the last step returned, or <<>>
  guard,          \* the duplicate guard of an uploadFile call: in flight, its outcome, or <<>>
  renameArgs,     \* the arguments of generateUniqueFilename: <<originalName, existingNames>>
  renamed,        \* what generateUniqueFilename returned, or <<>>
  duplicates,     \* useDuplicateFilesStore: state.duplicates
  isOpen,         \* useDuplicateFilesStore: state.isOpen
  resumeRecord,   \* a finished transfer: <<file.size, the partNo of each item of uploadedParts>>
  createParts     \* the partNo of each item of payload.parts, or <<>>

storeVars == <<filesIds, fileMap, currentFileId, activeUploads>>
engineVars == <<pc, parts, timer>>
\* the variables of the helper functions, which the upload actions leave alone
existenceVars == <<now, destination, cache, batch, checked, guard>>
renameVars == <<renameArgs, renamed>>
duplicateVars == <<duplicates, isOpen>>
finalizeVars == <<resumeRecord, createParts>>
helperVars == <<attempt, resumeIds, existenceVars, renameVars, duplicateVars, finalizeVars>>
uploadVars == <<filesIds, fileMap, currentFileId, activeUploads, aborted, nextId, snap,
                pc, parts, timer, toasts>>
vars == <<uploadVars, helperVars>>

\* ------------------------------------------------------------------ helpers
Min(a, b) == IF a < b THEN a ELSE b

Abs(a) == IF a < 0 THEN -a ELSE a

RECURSIVE SumSeq(_)
SumSeq(s) == IF s = <<>> THEN 0 ELSE Head(s) + SumSeq(Tail(s))

Range(s) == {s[i] : i \in DOMAIN s}

\* [a, a+1, ..., b] as a sequence
Interval(a, b) == [i \in 1..(b - a + 1) |-> a + i - 1]

InFlight == {"inflight", "half"}

EmptyMap == [j \in {} |-> 0]

\* ------------------------------------------------------------------ store
\* the records addFiles creates for the fresh ids, merged into the map
addFilesMap(fm, ids) ==
  [j \in DOMAIN fm \cup Range(ids) |->
     IF j \in Range(ids) THEN [status |-> NOT_STARTED, progress |-> 0] ELSE fm[j]]

addFilesIds(list, ids) == list \o ids

addFilesCurrent(cur, ids) == IF cur = 0 /\ Len(ids) > 0 THEN ids[1] ELSE cur

setProgress(fm, id, progress) ==
  IF id \in DOMAIN fm
    THEN IF Abs(fm[id].progress - progress) >= 1 \/ progress = 100
           THEN [fm EXCEPT ![id].progress = progress]
           ELSE fm
    ELSE fm

\* setFileUploadStatus without the `if (state.fileMap[id])` test: the write makes a record
setFileUploadStatusUpsert(fm, id, status) ==
  [j \in DOMAIN fm \cup {id} |->
     IF j = id THEN [status |-> status, progress |-> IF id \in DOMAIN fm THEN fm[id].progress ELSE 0]
     ELSE fm[j]]

\* setFileUploadStatus writing the status of every record
setFileUploadStatusEvery(fm, id, status) ==
  IF id \in DOMAIN fm THEN [j \in DOMAIN fm |-> [fm[j] EXCEPT !.status = status]] ELSE fm

setFileUploadStatus(fm, id, status) ==
  IF id \in DOMAIN fm THEN [fm EXCEPT ![id].status = status] ELSE fm

\* the effect without its setFileUploadStatus(fileId, UPLOADING)
setStatusAllButUploading(fm, S, status) ==
  IF status = UPLOADING THEN fm
  ELSE [j \in DOMAIN fm |-> IF j \in S THEN setFileUploadStatus(fm, j, status)[j] ELSE fm[j]]

\* setFileUploadStatus(j, status) for every j of S, one call after the other
setStatusAll(fm, S, status) ==
  [j \in DOMAIN fm |-> IF j \in S THEN setFileUploadStatus(fm, j, status)[j] ELSE fm[j]]

addActiveUpload(act, id) == act \cup {id}

\* removeActiveUpload leaving the id in the set
removeActiveUploadKeep(act, id) == act

removeActiveUpload(act, id) == act \ {id}

\* removeFile, field by field
removeFileAborts(fm, id) == IF id \in DOMAIN fm THEN {id} ELSE {}

\* removeFile without `delete state.fileMap[id]`
removeFileMapKeep(fm, id) == fm

removeFileMap(fm, id) == [j \in DOMAIN fm \ {id} |-> fm[j]]

removeFileIds(list, id) == SelectSeq(list, LAMBDA fileId : fileId # id)

\* removeFile without `state.activeUploads.delete(id)`
removeFileActiveKeep(act, id) == act

removeFileActive(act, id) == act \ {id}

\* cancelUpload aborting the controller of the current file alone
cancelUploadAbortsCurrent(fm, cur) == {cur} \cap DOMAIN fm

\* cancelUpload: the controllers it aborts
cancelUploadAborts(fm, cur) == DOMAIN fm

\* ------------------------------------------------------------------ engine
totalParts(size) == (size + chunkSize - 1) \div chunkSize

\* the part loop comparing item.partNo with partIndex, not partIndex + 1
partLoopOffByOne(size, uploaded) ==
  [i \in 1..totalParts(size) |-> IF (i - 1) \in uploaded THEN "committed" ELSE "queued"]

\* the part loop: a sequence number of the resume record gets progress 100 and is
\* skipped, every other one is handed to p-limit
partLoop(size, uploaded) ==
  [i \in 1..totalParts(size) |-> IF i \in uploaded THEN "committed" ELSE "queued"]

\* p-limit: queued parts start, lowest sequence number first, while fewer than
\* uploadConcurrency transfers of this file are in flight
pLimitRun(ps) ==
  LET free == uploadConcurrency - Cardinality({i \in DOMAIN ps : ps[i] \in InFlight})
      queued == {i \in DOMAIN ps : ps[i] = "queued"}
  IN [i \in DOMAIN ps |->
        IF ps[i] = "queued" /\ Cardinality({j \in queued : j < i}) < free
          THEN "inflight" ELSE ps[i]]

\* limit.clearQueue()
clearQueue(ps) == [i \in DOMAIN ps |-> IF ps[i] = "queued" THEN "dropped" ELSE ps[i]]

\* Promise.allSettled in the place of Promise.all
promiseAllSettled(ps) ==
  IF \A i \in DOMAIN ps : ps[i] \in {"committed", "done", "failed", "aborted"}
    THEN "resolved" ELSE "pending"

\* Promise.all(partUploadPromises)
promiseAll(ps) ==
  IF \E i \in DOMAIN ps : ps[i] \in {"failed", "aborted"} THEN "rejected"
  ELSE IF \A i \in DOMAIN ps : ps[i] \in {"committed", "done"} THEN "resolved"
  ELSE "pending"

\* partProgress[partIndex]
partProgress(st) ==
  IF st \in {"committed", "done"} THEN 100 ELSE IF st = "half" THEN 50 ELSE 0

\* getProgress without the division by totalParts
getProgressSum(ps) == SumSeq([i \in DOMAIN ps |-> partProgress(ps[i])])

\* the getProgress closure handed to requestProgressUpdate
getProgress(ps) == SumSeq([i \in DOMAIN ps |-> partProgress(ps[i])]) \div Len(ps)

\* what is left of a call's parts once uploadFile has returned: the transfers
\* still in flight, which nothing awaits any more
orphans(ps) ==
  IF \E i \in DOMAIN ps : ps[i] \in InFlight
    THEN [i \in DOMAIN ps |-> IF ps[i] \in InFlight THEN "inflight" ELSE "settled"]
    ELSE <<>>

\* xhr.abort() for every transfer in flight, then cleanup(): limit.clearQueue()
abortXhrs(ps) ==
  clearQueue([i \in DOMAIN ps |-> IF ps[i] \in InFlight THEN "aborted" ELSE ps[i]])

\* the calls whose Promise.all rejects with "Upload aborted"
abortRejects(S) == {j \in S : pc[j] = "parts"}

\* controller.abort() for the ids in S: the listeners on those signals fire, and
\* the calls that were awaiting their parts throw
AbortSignals(S) ==
  /\ aborted' = aborted \cup S
  /\ parts' = [j \in Ids |->
                 IF j \in S
                   THEN IF pc[j] \in {"create", "delete"}
                          THEN abortXhrs(parts[j])
                          ELSE orphans(abortXhrs(parts[j]))
                   ELSE parts[j]]
  /\ pc' = [j \in Ids |-> IF j \in abortRejects(S) THEN "idle" ELSE pc[j]]
  /\ timer' = [j \in Ids |-> IF j \in S THEN FALSE ELSE timer[j]]
  /\ toasts' = {<<j, "Upload aborted">> : j \in abortRejects(S)}

\* no promise continuation is pending: the next task may run
Quiet == \A j \in Ids : pc[j] # "thrown"

\* ------------------------------------------------------------------ initial state
InitUpload ==
  /\ filesIds = <<>>
  /\ fileMap = EmptyMap
  /\ currentFileId = 0
  /\ activeUploads = {}
  /\ aborted = {}
  /\ nextId = 0
  /\ snap = <<>>
  /\ pc = [j \in Ids |-> "idle"]
  /\ parts = [j \in Ids |-> <<>>]
  /\ timer = [j \in Ids |-> FALSE]
  /\ toasts = {}

\* no helper function has been called
InitHelpers ==
  /\ attempt = <<>>
  /\ resumeIds = <<>>
  /\ now = 0
  /\ destination = {}
  /\ cache = EmptyMap
  /\ batch = <<>>
  /\ checked = <<>>
  /\ guard = <<>>
  /\ renameArgs = <<>>
  /\ renamed = <<>>
  /\ duplicates = <<>>
  /\ isOpen = FALSE
  /\ resumeRecord = <<>>
  /\ createParts = <<>>

Init == InitUpload /\ InitHelpers

\* ------------------------------------------------------------------ store actions
\* handleFileChange -> actions.addFiles(files), n files selected
AddFiles(n) ==
  /\ Quiet
  /\ nextId + n <= MaxFiles
  /\ LET ids == Interval(nextId + 1, nextId + n)
     IN /\ fileMap' = addFilesMap(fileMap, ids)
        /\ filesIds' = addFilesIds(filesIds, ids)
        /\ currentFileId' = addFilesCurrent(currentFileId, ids)
  /\ nextId' = nextId + n
  /\ toasts' = {}
  /\ UNCHANGED <<helperVars, activeUploads, aborted, snap, pc, parts, timer>>

\* actions.removeFile(id), and the catch handler of the call it aborts
RemoveFile(id) ==
  /\ Quiet
  /\ id \in DOMAIN fileMap
  /\ LET S == removeFileAborts(fileMap, id) \ aborted
         fm1 == removeFileMap(fileMap, id)
         ids1 == removeFileIds(filesIds, id)
         act1 == removeFileActive(activeUploads, id)
         empty == Len(ids1) = 0
         fm2 == IF empty THEN EmptyMap ELSE fm1
         act2 == IF empty THEN {} ELSE act1
     IN /\ AbortSignals(S)
        /\ filesIds' = ids1
        /\ currentFileId' = IF empty THEN 0 ELSE currentFileId
        /\ fileMap' = setStatusAll(fm2, abortRejects(S), FAILED)
        /\ activeUploads' = act2 \ abortRejects(S)
  /\ UNCHANGED <<helperVars, nextId, snap>>

\* actions.cancelUpload(), and the catch handlers of the calls it aborts
CancelUpload ==
  /\ Quiet
  /\ filesIds # <<>>
  /\ LET S == cancelUploadAborts(fileMap, currentFileId) \ aborted
     IN /\ AbortSignals(S)
        /\ fileMap' = setStatusAll(EmptyMap, abortRejects(S), FAILED)
        /\ activeUploads' = {} \ abortRejects(S)
  /\ filesIds' = <<>>
  /\ currentFileId' = 0
  /\ UNCHANGED <<helperVars, nextId, snap>>

\* ------------------------------------------------------------------ admission
\* a render of Upload: the effect it schedules closes over fileIds and activeUploads
Render ==
  /\ Quiet
  /\ snap # <<filesIds, Cardinality(activeUploads)>>
  /\ snap' = <<filesIds, Cardinality(activeUploads)>>
  /\ toasts' = {}
  /\ UNCHANGED <<helperVars, storeVars, aborted, nextId, engineVars>>

\* readyFiles without the NOT_STARTED test
readyFilesAnyStatus(fileIds) == SelectSeq(fileIds, LAMBDA id : id \in DOMAIN fileMap)

readyFiles(fileIds) ==
  SelectSeq(fileIds, LAMBDA id : id \in DOMAIN fileMap /\ fileMap[id].status = NOT_STARTED)

\* availableSlots without the files already active
availableSlotsIgnoringActive(size) == maxConcurrentFiles

\* availableSlots one short
availableSlotsOneShort(size) == maxConcurrentFiles - size - 1

availableSlots(size) == maxConcurrentFiles - size

\* filesToStart taking the last ready files, not the first
filesToStartFromEnd(fileIds, size) ==
  IF Len(readyFiles(fileIds)) > 0 /\ availableSlots(size) > 0
    THEN SubSeq(readyFiles(fileIds),
                Len(readyFiles(fileIds)) - Min(availableSlots(size), Len(readyFiles(fileIds))) + 1,
                Len(readyFiles(fileIds)))
    ELSE <<>>

filesToStart(fileIds, size) ==
  IF Len(readyFiles(fileIds)) > 0 /\ availableSlots(size) > 0
    THEN SubSeq(readyFiles(fileIds), 1, Min(availableSlots(size), Len(readyFiles(fileIds))))
    ELSE <<>>

\* what fileExistenceCache.get(path, fileName) answers when uploadFile starts
CacheResults == {"miss", "absent", "exists"}

\* the admission effect: every file of filesToStart is marked UPLOADING, added to
\* activeUploads and handed to uploadFile, which runs up to its first await (the
\* existence query, the resume query) or throws on a cached "exists"
Effect ==
  /\ Quiet
  /\ snap # <<>>
  /\ LET S == Range(filesToStart(snap[1], snap[2]))
     IN \E cached \in [S -> CacheResults] :
          /\ fileMap' = setStatusAll(fileMap, S, UPLOADING)
          /\ activeUploads' = activeUploads \cup S
          /\ pc' = [j \in Ids |->
                      IF j \notin S THEN pc[j]
                      ELSE IF cached[j] = "exists" THEN "thrown"
                      ELSE IF cached[j] = "miss" THEN "guard" ELSE "resume"]
  /\ snap' = <<>>
  /\ toasts' = {}
  /\ UNCHANGED <<helperVars, filesIds, currentFileId, aborted, nextId, parts, timer>>

\* ------------------------------------------------------------------ engine actions
\* uploadFile returns: finally { cleanup() }, then the completion handler
EngineReturns(id) ==
  /\ pc' = [pc EXCEPT ![id] = "idle"]
  /\ parts' = [parts EXCEPT ![id] = <<>>]
  /\ timer' = [timer EXCEPT ![id] = FALSE]
  /\ toasts' = {}
  /\ fileMap' = setFileUploadStatus(fileMap, id, UPLOADED)
  /\ activeUploads' = removeActiveUpload(activeUploads, id)
  /\ UNCHANGED <<helperVars, filesIds, currentFileId, aborted, nextId, snap>>

\* uploadFile throws: finally { cleanup() }, then the catch handler
EngineThrows(id, ps, message) ==
  /\ pc' = [pc EXCEPT ![id] = "idle"]
  /\ parts' = [parts EXCEPT ![id] = orphans(clearQueue(ps))]
  /\ timer' = [timer EXCEPT ![id] = FALSE]
  /\ toasts' = {<<id, message>>}
  /\ fileMap' = setFileUploadStatus(fileMap, id, FAILED)
  /\ activeUploads' = removeActiveUpload(activeUploads, id)
  /\ UNCHANGED <<helperVars, filesIds, currentFileId, aborted, nextId, snap>>

\* the catch handlers of the calls that threw before their first await, one
\* promise continuation after the other
ThrownAtStart ==
  /\ ~Quiet
  /\ pc' = [j \in Ids |-> IF pc[j] = "thrown" THEN "idle" ELSE pc[j]]
  /\ toasts' = {<<j, "File already exists">> : j \in {k \in Ids : pc[k] = "thrown"}}
  /\ fileMap' = setStatusAll(fileMap, {k \in Ids : pc[k] = "thrown"}, FAILED)
  /\ activeUploads' = activeUploads \ {k \in Ids : pc[k] = "thrown"}
  /\ UNCHANGED <<helperVars, filesIds, currentFileId, aborted, nextId, snap, parts, timer>>

\* Promise.all(partUploadPromises) has or has not settled: uploadFile goes on to
\* onCreate(payload), throws, or keeps waiting
AwaitParts(id, ps) ==
  CASE promiseAll(ps) = "rejected" -> EngineThrows(id, ps, "Upload failed")
    [] promiseAll(ps) = "resolved" ->
         /\ pc' = [pc EXCEPT ![id] = "create"]
         /\ parts' = [parts EXCEPT ![id] = ps]
         /\ timer' = [timer EXCEPT ![id] = TRUE]
         /\ toasts' = {}
         /\ UNCHANGED <<helperVars, storeVars, aborted, nextId, snap>>
    [] OTHER ->
         /\ pc' = [pc EXCEPT ![id] = "parts"]
         /\ parts' = [parts EXCEPT ![id] = ps]
         /\ timer' = [timer EXCEPT ![id] = TRUE]
         /\ toasts' = {}
         /\ UNCHANGED <<helperVars, storeVars, aborted, nextId, snap>>

\* the single-name existence query of the duplicate guard answers
GuardDone(id, res) ==
  /\ Quiet
  /\ pc[id] = "guard"
  /\ IF res = "exists"
       THEN EngineThrows(id, parts[id], "File already exists")
       ELSE /\ pc' = [pc EXCEPT ![id] = "resume"]
            /\ toasts' = {}
            /\ UNCHANGED <<helperVars, storeVars, aborted, nextId, snap, parts, timer>>

\* GET /uploads/{id} fails
ResumeFails(id) ==
  /\ Quiet
  /\ pc[id] = "resume"
  /\ EngineThrows(id, parts[id], "fetch failed")

\* GET /uploads/{id} answers with the parts `uploaded`; the part loop hands the
\* others to p-limit, the progress interval starts, uploadFile awaits Promise.all
ResumeDone(id, size, uploaded) ==
  /\ Quiet
  /\ pc[id] = "resume"
  /\ uploaded \subseteq 1..totalParts(size)
  /\ AwaitParts(id, pLimitRun(partLoop(size, uploaded)))

\* xhr.upload.onprogress of part partNo
PartProgress(id, partNo) ==
  /\ Quiet
  /\ pc[id] = "parts"
  /\ partNo \in DOMAIN parts[id]
  /\ parts[id][partNo] = "inflight"
  /\ parts' = [parts EXCEPT ![id][partNo] = "half"]
  /\ toasts' = {}
  /\ UNCHANGED <<helperVars, storeVars, aborted, nextId, snap, pc, timer>>

\* xhr.onload ("done") or xhr.onerror ("failed") of part partNo while uploadFile
\* awaits Promise.all: p-limit starts the next queued part, then Promise.all is looked at
PartSettles(id, partNo, how) ==
  /\ Quiet
  /\ pc[id] = "parts"
  /\ partNo \in DOMAIN parts[id]
  /\ parts[id][partNo] \in InFlight
  /\ AwaitParts(id, pLimitRun([parts[id] EXCEPT ![partNo] = how]))

\* a transfer nothing awaits any more settles
OrphanSettles(id, partNo) ==
  /\ Quiet
  /\ pc[id] = "idle"
  /\ partNo \in DOMAIN parts[id]
  /\ parts[id][partNo] \in InFlight
  /\ parts' = [parts EXCEPT ![id] = orphans([parts[id] EXCEPT ![partNo] = "settled"])]
  /\ toasts' = {}
  /\ UNCHANGED <<helperVars, storeVars, aborted, nextId, snap, pc, timer>>

\* the create-file request answers
CreateDone(id, ok) ==
  /\ Quiet
  /\ pc[id] = "create"
  /\ IF ok
       THEN /\ pc' = [pc EXCEPT ![id] = "delete"]
            /\ toasts' = {}
            /\ UNCHANGED <<helperVars, storeVars, aborted, nextId, snap, parts, timer>>
       ELSE EngineThrows(id, parts[id], "fetch failed")

\* DELETE /uploads/{id} answers (ok) or the request throws
DeleteDone(id, ok) ==
  /\ Quiet
  /\ pc[id] = "delete"
  /\ IF ok THEN EngineReturns(id) ELSE EngineThrows(id, parts[id], "fetch failed")

\* the progress interval fires and the animation frame pushes getProgress()
ProgressTick(id) ==
  /\ Quiet
  /\ timer[id]
  /\ fileMap' = setProgress(fileMap, id, getProgress(parts[id]))
  /\ toasts' = {}
  /\ UNCHANGED <<helperVars, filesIds, currentFileId, activeUploads, aborted, nextId, snap, engineVars>>

\* ------------------------------------------------------------------ specifications
PartNos == 1..totalParts(MaxFileSize)

\* enqueueing, admission, transfer and cancellation
Next ==
  \/ \E n \in 1..MaxFiles : AddFiles(n)
  \/ \E id \in Ids : RemoveFile(id)
  \/ CancelUpload
  \/ Render
  \/ Effect
  \/ ThrownAtStart
  \/ \E id \in Ids, res \in {"exists", "absent", "error"} : GuardDone(id, res)
  \/ \E id \in Ids : ResumeFails(id)
  \/ \E id \in Ids, size \in FileSizes : \E uploaded \in SUBSET (1..totalParts(size)) :
       ResumeDone(id, size, uploaded)
  \/ \E id \in Ids, partNo \in PartNos, how \in {"done", "failed"} :
       PartSettles(id, partNo, how)
  \/ \E id \in Ids, partNo \in PartNos : OrphanSettles(id, partNo)
  \/ \E id \in Ids, ok \in BOOLEAN : CreateDone(id, ok)
  \/ \E id \in Ids, ok \in BOOLEAN : DeleteDone(id, ok)

Spec == Init /\ [][Next]_vars

\* the same, with the progress events of the transfers and the progress pushes
NextProgress ==
  \/ Next
  \/ \E id \in Ids, partNo \in PartNos : PartProgress(id, partNo)
  \/ \E id \in Ids : ProgressTick(id)

SpecProgress == Init /\ [][NextProgress]_vars

\* one file of up to MaxResumeSize bytes, from its selection to the end of its
\* uploadFile call
NextEngine ==
  \/ nextId = 0 /\ AddFiles(1)
  \/ RemoveFile(1)
  \/ CancelUpload
  \/ Render
  \/ Effect
  \/ ThrownAtStart
  \/ \E res \in {"exists", "absent", "error"} : GuardDone(1, res)
  \/ ResumeFails(1)
  \/ \E size \in 1..MaxResumeSize : \E uploaded \in SUBSET (1..totalParts(size)) :
       ResumeDone(1, size, uploaded)
  \/ \E partNo \in 1..totalParts(MaxResumeSize), how \in {"done", "failed"} :
       PartSettles(1, partNo, how)
  \/ \E partNo \in 1..totalParts(MaxResumeSize) : OrphanSettles(1, partNo)
  \/ \E ok \in BOOLEAN : CreateDone(1, ok)
  \/ \E ok \in BOOLEAN : DeleteDone(1, ok)

SpecEngine == Init /\ [][NextEngine]_vars

\* the same file, with the progress events of its transfers and the progress pushes
NextEngineProgress ==
  \/ NextEngine
  \/ \E partNo \in 1..totalParts(MaxResumeSize) : PartProgress(1, partNo)
  \/ ProgressTick(1)

SpecEngineProgress == Init /\ [][NextEngineProgress]_vars

\* the values onProgress can be called with
ProgressValues == {0, 1, 50, 99, 100}

\* actions.setProgress(id, progress), whoever calls it
SetProgress(id, progress) ==
  /\ Quiet
  /\ fileMap' = setProgress(fileMap, id, progress)
  /\ toasts' = {}
  /\ UNCHANGED <<helperVars, filesIds, currentFileId, activeUploads, aborted, nextId, snap,
                 engineVars>>

\* actions.setFileUploadStatus(id, status), whoever calls it
SetFileUploadStatus(id, status) ==
  /\ Quiet
  /\ fileMap' = setFileUploadStatus(fileMap, id, status)
  /\ toasts' = {}
  /\ UNCHANGED <<helperVars, filesIds, currentFileId, activeUploads, aborted, nextId, snap,
                 engineVars>>

\* the store alone: its actions called in any order
NextStore ==
  \/ \E n \in 1..MaxFiles : AddFiles(n)
  \/ \E id \in Ids : RemoveFile(id)
  \/ CancelUpload
  \/ \E id \in Ids, progress \in ProgressValues : SetProgress(id, progress)
  \/ \E id \in Ids, status \in FileUploadStatus : SetFileUploadStatus(id, status)

SpecStore == Init /\ [][NextStore]_vars

\* the same as Spec, with React rendering after a store change and running the
\* effect of every render, and every request in flight answered
Fairness ==
  /\ WF_vars(Render)
  /\ WF_vars(Effect)
  /\ WF_vars(ThrownAtStart)

SpecFair == Spec /\ Fairness

\* every request in flight is answered or fails: the existence query, the resume
\* query, each part transfer, the create-file request and the DELETE
NetworkSettles ==
  \A id \in Ids :
    /\ WF_vars(\E res \in {"exists", "absent", "error"} : GuardDone(id, res))
    /\ WF_vars(\/ ResumeFails(id)
               \/ \E size \in FileSizes : \E uploaded \in SUBSET (1..totalParts(size)) :
                    ResumeDone(id, size, uploaded))
    /\ WF_vars(\E partNo \in PartNos, how \in {"done", "failed"} : PartSettles(id, partNo, how))
    /\ WF_vars(\E ok \in BOOLEAN : CreateDone(id, ok))
    /\ WF_vars(\E ok \in BOOLEAN : DeleteDone(id, ok))

\* the same as SpecFair, with every request settling
SpecLive == Spec /\ Fairness /\ NetworkSettles

\* ------------------------------------------------------------------ resume identifier
\* strings are sequences of characters
Digits == <<"0", "1", "2", "3", "4", "5", "6", "7", "8", "9">>

\* Number.prototype.toString()
RECURSIVE toString(_)
toString(n) ==
  IF n < 10 THEN <<Digits[n + 1]>> ELSE toString(n \div 10) \o <<Digits[(n % 10) + 1]>>

\* formatTime(file.lastModified): a rendering of fixed width, distinct times apart
formatTime(t) == <<Digits[(t \div 10) + 1], Digits[(t % 10) + 1]>>

\* md5, taken to be injective: the digest stands for the string it was given
md5(str) == <<"md5">> \o str

\* md5(`${path}/${fileName}${file.size.toString()}${formatTime(file.lastModified)}${userId}`)
uploadId(path, fileName, size, lastModified, userId) ==
  md5(path \o <<"/">> \o fileName \o toString(size) \o formatTime(lastModified)
      \o toString(userId))

Paths == {<<"/">>, <<"/", "d">>}
FileNames == {<<"a">>, <<"a", "1">>}
Attempts == Paths \X FileNames \X (1..MaxIdSize) \X (1..MaxTime) \X (1..MaxUserId)

\* two attempts, the second one possibly a retry of the first with its inputs changed
InitResumeId ==
  /\ InitUpload
  /\ attempt \in Attempts \X Attempts
  /\ resumeIds = <<>>
  /\ now = 0
  /\ destination = {}
  /\ cache = EmptyMap
  /\ batch = <<>>
  /\ checked = <<>>
  /\ guard = <<>>
  /\ renameArgs = <<>>
  /\ renamed = <<>>
  /\ duplicates = <<>>
  /\ isOpen = FALSE
  /\ resumeRecord = <<>>
  /\ createParts = <<>>

\* uploadFile computes the uploadId of each attempt
ComputeUploadId ==
  /\ attempt # <<>>
  /\ resumeIds = <<>>
  /\ resumeIds' = [k \in 1..2 |->
                     uploadId(attempt[k][1], attempt[k][2], attempt[k][3], attempt[k][4],
                              attempt[k][5])]
  /\ UNCHANGED <<uploadVars, finalizeVars, renameVars, duplicateVars, attempt, existenceVars>>

NextResumeId == ComputeUploadId

SpecResumeId == InitResumeId /\ [][NextResumeId]_vars

\* ------------------------------------------------------------------ existence checks
\* FileExistenceCache.DEFAULT_TTL: 5 minutes, the unit of the clock being 2.5 minutes
DEFAULT_TTL == 2

\* FileExistenceCache.get: the cached result ("exists" or "absent"), or "miss" for null
cacheGet(c, name, t) ==
  IF name \in DOMAIN c /\ ~(t > c[name].expires) THEN c[name].result ELSE "miss"

\* the cache after get(path, name): an expired entry is deleted
cacheAfterGet(c, name, t) ==
  IF name \in DOMAIN c /\ t > c[name].expires THEN [k \in DOMAIN c \ {name} |-> c[k]] ELSE c

\* the cache after get(path, name) for every name of S
cacheAfterGets(c, S, t) ==
  [k \in {n \in DOMAIN c : ~(n \in S /\ t > c[n].expires)} |-> c[k]]

\* FileExistenceCache.set
cacheSet(c, name, result, t, ttl) ==
  [k \in DOMAIN c \cup {name} |->
     IF k = name THEN [result |-> result, timestamp |-> t, expires |-> t + ttl] ELSE c[k]]

\* batchResults.forEach((result, fileName) => fileExistenceCache.set(path, fileName, result))
cacheSetAll(c, results, t) ==
  [k \in DOMAIN c \cup DOMAIN results |->
     IF k \in DOMAIN results
       THEN [result |-> results[k], timestamp |-> t, expires |-> t + DEFAULT_TTL]
       ELSE c[k]]

\* what a request to GET /files can come to: an answer, an error response (data is
\* undefined), or a rejected fetch
Answers == {"ok", "error", "throw"}

\* res.data?.items of the listing
listedItems(answer, dest) == IF answer = "ok" THEN dest ELSE {}

\* batchCheckFileExists with the catch block returning an empty map
batchCheckFileExistsEmptyFallback(fileNames, answer, dest) ==
  IF answer = "throw"
    THEN EmptyMap
    ELSE [n \in Range(fileNames) |->
            IF n \in listedItems(answer, dest) THEN "exists" ELSE "absent"]

\* batchCheckFileExists: the result map, name -> "exists" or "absent"
batchCheckFileExists(fileNames, answer, dest) ==
  IF answer = "throw"
    THEN [n \in Range(fileNames) |-> "absent"]
    ELSE [n \in Range(fileNames) |->
            IF n \in listedItems(answer, dest) THEN "exists" ELSE "absent"]

\* optimizedBatchFileCheck, first loop: the names with a cache entry
cachedResults(files, c, t) ==
  [n \in {m \in Range(files) : cacheGet(c, m, t) # "miss"} |-> cacheGet(c, n, t)]

\* optimizedBatchFileCheck, first loop: the files without one
uncachedFiles(files, c, t) == SelectSeq(files, LAMBDA n : cacheGet(c, n, t) = "miss")

\* new Map([...cachedResults, ...batchResults])
allResults(cached, results) ==
  [n \in DOMAIN cached \cup DOMAIN results |->
     IF n \in DOMAIN results THEN results[n] ELSE cached[n]]

\* result?.exists
resultExists(all, name) == name \in DOMAIN all /\ all[name] = "exists"

\* optimizedBatchFileCheck, last loop: the files (by position) to upload
toUpload(files, all) ==
  SelectSeq(Interval(1, Len(files)), LAMBDA i : ~resultExists(all, files[i]))

\* alreadyExists filled from the result map, one entry for each name
alreadyExistsByName(files, all) ==
  SelectSeq(Interval(1, Len(files)),
            LAMBDA i : resultExists(all, files[i]) /\ \A j \in 1..(i - 1) : files[j] # files[i])

\* optimizedBatchFileCheck, last loop: the files (by position) that already exist
alreadyExists(files, all) ==
  SelectSeq(Interval(1, Len(files)), LAMBDA i : resultExists(all, files[i]))

\* the lists of files a user can select
RECURSIVE SeqsUpTo(_, _)
SeqsUpTo(S, n) ==
  IF n = 0 THEN {<<>>}
  ELSE SeqsUpTo(S, n - 1) \cup {Append(q, x) : q \in SeqsUpTo(S, n - 1), x \in S}

FileLists == SeqsUpTo(FileNames, MaxBatch) \ {<<>>}

\* the outcome of a guard, and the result of a batch check, last one step
SettledGuard == IF guard # <<>> /\ guard.stage # "query" THEN <<>> ELSE guard

InitExistence ==
  /\ InitUpload
  /\ attempt = <<>>
  /\ resumeIds = <<>>
  /\ now = 0
  /\ destination \in SUBSET FileNames
  /\ cache = EmptyMap
  /\ batch = <<>>
  /\ checked = <<>>
  /\ guard = <<>>
  /\ renameArgs = <<>>
  /\ renamed = <<>>
  /\ duplicates = <<>>
  /\ isOpen = FALSE
  /\ resumeRecord = <<>>
  /\ createParts = <<>>

\* time passes
Tick ==
  /\ now < MaxNow
  /\ now' = now + 1
  /\ checked' = <<>>
  /\ guard' = SettledGuard
  /\ UNCHANGED <<uploadVars, finalizeVars, renameVars, duplicateVars, attempt, resumeIds, destination, cache, batch>>

\* a file appears at the destination or leaves it
DestinationChanges(name) ==
  /\ destination' = IF name \in destination THEN destination \ {name}
                    ELSE destination \cup {name}
  /\ checked' = <<>>
  /\ guard' = SettledGuard
  /\ UNCHANGED <<uploadVars, finalizeVars, renameVars, duplicateVars, attempt, resumeIds, now, cache, batch>>

\* optimizedBatchFileCheck returns
BatchReturns(files, cached, requested, answer, results) ==
  /\ checked' = [files |-> files, requested |-> requested, answer |-> answer,
                 batchResults |-> results,
                 toUpload |-> toUpload(files, allResults(cached, results)),
                 alreadyExists |-> alreadyExists(files, allResults(cached, results))]
  /\ batch' = <<>>

\* handleFileChange: optimizedBatchFileCheck(files, path) up to its listing
\* request, or to its end when every name is cached
BatchStart(files) ==
  /\ batch = <<>>
  /\ LET cached == cachedResults(files, cache, now)
         uncached == uncachedFiles(files, cache, now)
     IN IF Len(uncached) > 0
          THEN /\ batch' = [files |-> files, cached |-> cached, requested |-> uncached]
               /\ checked' = <<>>
          ELSE BatchReturns(files, cached, <<>>, "none", EmptyMap)
  /\ cache' = cacheAfterGets(cache, Range(files), now)
  /\ guard' = SettledGuard
  /\ UNCHANGED <<uploadVars, finalizeVars, renameVars, duplicateVars, attempt, resumeIds, now, destination>>

\* the listing request of batchCheckFileExists settles: the results are cached and
\* the files sorted into toUpload and alreadyExists
BatchListing(answer) ==
  /\ batch # <<>>
  /\ LET results == batchCheckFileExists(batch.requested, answer, destination)
     IN /\ cache' = cacheSetAll(cache, results, now)
        /\ BatchReturns(batch.files, batch.cached, batch.requested, answer, results)
  /\ guard' = SettledGuard
  /\ UNCHANGED <<uploadVars, finalizeVars, renameVars, duplicateVars, attempt, resumeIds, now, destination>>

\* uploadFile for a file called name, up to the existence query of its guard or,
\* with a cache entry, past the guard
GuardStart(name) ==
  /\ SettledGuard = <<>>
  /\ guard' = [name |-> name,
               stage |-> CASE cacheGet(cache, name, now) = "miss" -> "query"
                           [] cacheGet(cache, name, now) = "exists" -> "throws"
                           [] OTHER -> "proceeds",
               answer |-> "none"]
  /\ cache' = cacheAfterGet(cache, name, now)
  /\ checked' = <<>>
  /\ UNCHANGED <<uploadVars, finalizeVars, renameVars, duplicateVars, attempt, resumeIds, now, destination, batch>>

\* Boolean(res && res.items.length > 0)
guardExists(answer, name, dest) == answer = "ok" /\ name \in dest

\* the catch block of the guard rethrowing whatever it caught
guardOutcomeRethrow(answer, name, dest) ==
  IF answer = "throw" \/ guardExists(answer, name, dest) THEN "throws" ELSE "proceeds"

\* the guard after its query: `throw new Error("File already exists")`, rethrown by
\* the catch block, or any other error logged and the upload continued
guardOutcome(answer, name, dest) ==
  IF answer = "throw" THEN "proceeds"
  ELSE IF guardExists(answer, name, dest) THEN "throws" ELSE "proceeds"

\* the existence query of the guard settles
GuardAnswer(answer) ==
  /\ guard # <<>>
  /\ guard.stage = "query"
  /\ guard' = [guard EXCEPT !.stage = guardOutcome(answer, guard.name, destination),
                            !.answer = answer]
  /\ cache' = IF answer = "throw" THEN cache
              ELSE cacheSet(cache, guard.name,
                            IF guardExists(answer, guard.name, destination)
                              THEN "exists" ELSE "absent",
                            now, DEFAULT_TTL)
  /\ checked' = <<>>
  /\ UNCHANGED <<uploadVars, finalizeVars, renameVars, duplicateVars, attempt, resumeIds, now, destination, batch>>

\* the call the guard let through ends: the file is at the destination, and the
\* completion handler sets the status and removes the active upload, nothing else
UploadCompletes ==
  /\ guard # <<>>
  /\ guard.stage = "proceeds"
  /\ guard' = [guard EXCEPT !.stage = "uploaded"]
  /\ destination' = destination \cup {guard.name}
  /\ checked' = <<>>
  /\ UNCHANGED <<uploadVars, finalizeVars, renameVars, duplicateVars, attempt, resumeIds, now,
                 cache, batch>>

NextExistence ==
  \/ Tick
  \/ \E name \in FileNames : DestinationChanges(name)
  \/ \E files \in FileLists : BatchStart(files)
  \/ \E answer \in Answers : BatchListing(answer)
  \/ \E name \in FileNames : GuardStart(name)
  \/ \E answer \in Answers : GuardAnswer(answer)
  \/ UploadCompletes

SpecExistence == InitExistence /\ [][NextExistence]_vars

\* ------------------------------------------------------------------ unique file names
\* the safety limit of the do/while loop of generateUniqueFilename (1000 in the source)
SAFETY_LIMIT == 3

\* String.prototype.indexOf(ch), counted from 1: 0 when ch is not in str
indexOf(str, ch) ==
  LET at == {i \in DOMAIN str : str[i] = ch}
  IN IF at = {} THEN 0 ELSE CHOOSE i \in at : \A j \in at : i <= j

\* String.prototype.lastIndexOf(ch), counted from 1: 0 when ch is not in str
lastIndexOf(str, ch) ==
  LET at == {i \in DOMAIN str : str[i] = ch}
  IN IF at = {} THEN 0 ELSE CHOOSE i \in at : \A j \in at : j <= i

\* `${name} (${counter})${extension}`
candidate(name, counter, extension) ==
  name \o <<" ", "(">> \o toString(counter) \o <<")">> \o extension

\* do { newName = ...; counter++ } while (existingNames.has(newName) && counter < 1000)
RECURSIVE doWhile(_, _, _, _)
doWhile(name, extension, counter, existingNames) ==
  IF candidate(name, counter, extension) \in existingNames /\ counter + 1 < SAFETY_LIMIT
    THEN doWhile(name, extension, counter + 1, existingNames)
    ELSE candidate(name, counter, extension)

generateUniqueFilename(originalName, existingNames) ==
  IF originalName \notin existingNames
    THEN originalName
    ELSE LET lastDotIndex == lastIndexOf(originalName, ".")
             name == IF lastDotIndex > 0 THEN SubSeq(originalName, 1, lastDotIndex - 1)
                     ELSE originalName
             extension == IF lastDotIndex > 0
                            THEN SubSeq(originalName, lastDotIndex, Len(originalName))
                            ELSE <<>>
         IN doWhile(name, extension, 1, existingNames)

\* the names asked for: without a dot, with one, with two
OriginalNames == {<<"a">>, <<"a", ".", "t">>, <<"a", ".", "b", ".", "t">>}

\* the names the destination may hold: the names asked for and their numbered forms
NumberedNames ==
  {candidate(p[1], k, p[2]) :
     p \in {<<<<"a">>, <<>>>>, <<<<"a">>, <<".", "t">>>>, <<<<"a", ".", "b">>, <<".", "t">>>>},
     k \in 1..SAFETY_LIMIT}

KnownNames == OriginalNames \cup NumberedNames

\* generateUniqueFilename is about to be called with a name and a set of names
InitRename ==
  /\ InitUpload
  /\ attempt = <<>>
  /\ resumeIds = <<>>
  /\ now = 0
  /\ destination = {}
  /\ cache = EmptyMap
  /\ batch = <<>>
  /\ checked = <<>>
  /\ guard = <<>>
  /\ renameArgs \in OriginalNames \X (SUBSET KnownNames)
  /\ renamed = <<>>
  /\ duplicates = <<>>
  /\ isOpen = FALSE
  /\ resumeRecord = <<>>
  /\ createParts = <<>>

\* the call returns
GenerateUniqueFilename ==
  /\ renameArgs # <<>>
  /\ renamed = <<>>
  /\ renamed' = generateUniqueFilename(renameArgs[1], renameArgs[2])
  /\ UNCHANGED <<uploadVars, finalizeVars, attempt, resumeIds, existenceVars, renameArgs, duplicateVars>>

NextRename == GenerateUniqueFilename

SpecRename == InitRename /\ [][NextRename]_vars

\* ------------------------------------------------------------------ duplicate resolution
\* DuplicateFileItem.action
Resolutions == {"skip", "overwrite", "rename"}

\* the newName argument of updateAction: left out (<<>>) or a name
NewNames == {<<>>, <<"a", " ", "(", "1", ")">>}

\* the index argument of updateAction, counted from 0 as in the source
Indexes == (0 - 1)..MaxBatch

\* the lists setDuplicates is called with, each item standing for its file.name
DuplicateLists == SeqsUpTo(FileNames, MaxBatch)

\* duplicates.map(item => ({ file, existingFile, action: 'skip' })): no newName (<<>>)
setDuplicates(items) ==
  [i \in DOMAIN items |-> [file |-> items[i], action |-> "skip", newName |-> <<>>]]

\* if (state.duplicates[index]) { action = action; if (newName) newName = newName }
updateAction(dups, index, action, newName) ==
  IF index + 1 \in DOMAIN dups
    THEN [dups EXCEPT ![index + 1] =
            [file |-> @.file, action |-> action,
             newName |-> IF newName # <<>> THEN newName ELSE @.newName]]
    ELSE dups

\* state.duplicates.forEach(item => { item.action = action })
applyAll(dups, action) == [i \in DOMAIN dups |-> [dups[i] EXCEPT !.action = action]]

\* actions.setDuplicates(duplicates)
SetDuplicates(items) ==
  /\ duplicates' = setDuplicates(items)
  /\ isOpen' = (Len(items) > 0)
  /\ UNCHANGED <<uploadVars, finalizeVars, attempt, resumeIds, existenceVars, renameVars>>

\* actions.updateAction(index, action, newName)
UpdateAction(index, action, newName) ==
  /\ duplicates' = updateAction(duplicates, index, action, newName)
  /\ UNCHANGED <<uploadVars, finalizeVars, attempt, resumeIds, existenceVars, renameVars, isOpen>>

\* actions.close()
Close ==
  /\ isOpen' = FALSE
  /\ duplicates' = <<>>
  /\ UNCHANGED <<uploadVars, finalizeVars, attempt, resumeIds, existenceVars, renameVars>>

\* actions.applyAll(action)
ApplyAll(action) ==
  /\ duplicates' = applyAll(duplicates, action)
  /\ UNCHANGED <<uploadVars, finalizeVars, attempt, resumeIds, existenceVars, renameVars, isOpen>>

NextDuplicates ==
  \/ \E items \in DuplicateLists : SetDuplicates(items)
  \/ \E index \in Indexes, action \in Resolutions, newName \in NewNames :
       UpdateAction(index, action, newName)
  \/ Close
  \/ \E action \in {"skip", "overwrite"} : ApplyAll(action)

SpecDuplicates == Init /\ [][NextDuplicates]_vars

\* ------------------------------------------------------------------ the create-file request
\* the parts the loop of uploadFile hands to p-limit, in the order of the pushes
partUploadPromises(size, uploaded) ==
  SelectSeq(Interval(1, totalParts(size)), LAMBDA i : partLoop(size, uploaded)[i] = "queued")

\* uploadedParts.concat(parts).sort((a, b) => a.partNo - b.partNo), each item by its partNo
uploadParts(uploadedParts, newParts) ==
  SortSeq(uploadedParts \o newParts, LAMBDA a, b : a < b)

\* the records GET /uploads/{id} can answer with for a file of this size: the
\* id does not depend on the chunk size, so the parts of an attempt made with
\* any chunk size up to the present one
ResumeRecords(size) ==
  {SelectSeq(Interval(1, size), LAMBDA i : i \in S) :
     S \in UNION {SUBSET (1..((size + c - 1) \div c)) : c \in 1..chunkSize}}

\* every part of a file has settled, with the record the resume query answered
InitFinalize ==
  /\ InitUpload
  /\ attempt = <<>>
  /\ resumeIds = <<>>
  /\ now = 0
  /\ destination = {}
  /\ cache = EmptyMap
  /\ batch = <<>>
  /\ checked = <<>>
  /\ guard = <<>>
  /\ renameArgs = <<>>
  /\ renamed = <<>>
  /\ duplicates = <<>>
  /\ isOpen = FALSE
  /\ resumeRecord \in {<<size, rec>> : size \in 1..MaxResumeSize, rec \in ResumeRecords(MaxResumeSize)}
  /\ resumeRecord[2] \in ResumeRecords(resumeRecord[1])
  /\ createParts = <<>>

\* Promise.all has resolved: uploadFile builds payload.parts
BuildPayload ==
  /\ resumeRecord # <<>>
  /\ createParts = <<>>
  /\ createParts' = uploadParts(resumeRecord[2],
                                partUploadPromises(resumeRecord[1], Range(resumeRecord[2])))
  /\ UNCHANGED <<uploadVars, attempt, resumeIds, existenceVars, renameVars, duplicateVars,
                 resumeRecord>>

NextFinalize == BuildPayload

SpecFinalize == InitFinalize /\ [][NextFinalize]_vars

\* ------------------------------------------------------------------ properties
NotStartedIds == {id \in DOMAIN fileMap : fileMap[id].status = NOT_STARTED}

\* id is admitted in this step: its record leaves NOT_STARTED
Admitted(id) ==
  /\ id \in NotStartedIds
  /\ id \in DOMAIN fileMap'
  /\ fileMap'[id].status # NOT_STARTED

\* a transfer of id starts in this step
PartStarts(id) ==
  \E i \in DOMAIN parts'[id] :
    /\ parts'[id][i] \in InFlight
    /\ (i \notin DOMAIN parts[id] \/ parts[id][i] \notin InFlight)

\* a transfer of id completes in this step
PartCompletes(id) ==
  \E i \in DOMAIN parts[id] :
    /\ parts[id][i] \in InFlight
    /\ i \in DOMAIN parts'[id]
    /\ parts'[id][i] = "done"

\* C1: the active set never holds more than maxConcurrentFiles ids.
C1_ActiveWithinLimit == Cardinality(activeUploads) <= maxConcurrentFiles

\* every slot is taken, a task waits, and an admission pass is about to run
C1_Witness ==
  /\ Cardinality(activeUploads) = maxConcurrentFiles
  /\ NotStartedIds # {}
  /\ snap # <<>>

\* C2: once a task's controller is aborted, no part transfer of that task starts
\* or completes.
C2_NoPartAfterAbort ==
  [][\A id \in aborted : ~PartStarts(id) /\ ~PartCompletes(id)]_vars

\* C3: while the create-file request (and the delete after it) is out, every part
\* of the file is committed: reported by the resume query or uploaded by this
\* call; none has failed, was aborted or is still queued or in flight.
C3_FinalizeAfterAllParts ==
  \A id \in Ids :
    pc[id] \in {"create", "delete"} =>
      /\ parts[id] # <<>>
      /\ \A i \in DOMAIN parts[id] : parts[id][i] \in {"committed", "done"}

\* the create-file request of a two-part file is out, one part resumed, one uploaded
C3_Witness ==
  \E id \in Ids :
    /\ pc[id] = "create"
    /\ Len(parts[id]) >= 2
    /\ \E i, k \in DOMAIN parts[id] : parts[id][i] = "done" /\ parts[id][k] = "committed"

\* C4: cancelUpload aborts the controller of every task of the store and leaves
\* the id list, the record map and the active set empty; and a task whose
\* controller is aborted has no record, is not active, and its uploadFile is
\* never started afterwards, whatever admission pass is pending.
C4_CancelAllIsFinal ==
  [][/\ CancelUpload =>
          /\ filesIds' = <<>>
          /\ fileMap' = EmptyMap
          /\ activeUploads' = {}
          /\ DOMAIN fileMap \subseteq aborted'
     /\ \A id \in aborted :
          /\ id \notin DOMAIN fileMap'
          /\ id \notin activeUploads'
          /\ pc[id] = "idle" => pc'[id] = "idle"]_vars

\* everything was cancelled while a pass computed from a render that still listed
\* the cancelled tasks, with a free slot, waits to run
C4_Witness ==
  /\ filesIds = <<>>
  /\ Cardinality(aborted) >= 2
  /\ snap # <<>>
  /\ Range(snap[1]) \cap aborted # {}
  /\ snap[2] < maxConcurrentFiles

\* C5: an id is in filesIds exactly when fileMap holds a record for it.
C5_IdListMatchesRecords == Range(filesIds) = DOMAIN fileMap

\* a task was removed, another one is transferring and has had a progress push
C5_Witness ==
  /\ aborted # {}
  /\ \E id \in DOMAIN fileMap :
       fileMap[id].status = UPLOADING /\ fileMap[id].progress > 0

FreeSlotAndWaiting ==
  Cardinality(activeUploads) < maxConcurrentFiles /\ NotStartedIds # {}

\* the effect of a render runs in this step, and nothing changed since that render
FreshPass == snap # <<>> /\ snap' = <<>> /\ snap = <<filesIds, Cardinality(activeUploads)>>

\* C6: an admission pass computed from the current store admits exactly
\* min(|NotStarted|, maxConcurrentFiles - |active|) tasks; and a free slot with a
\* task waiting does not last: a pass runs and the slot is taken (or the task
\* is removed).
C6_AdmissionFillsSlots ==
  /\ [][FreshPass =>
          Cardinality({id \in NotStartedIds : Admitted(id)})
            = Min(Cardinality(NotStartedIds), maxConcurrentFiles - Cardinality(activeUploads))]_vars
  /\ (FreeSlotAndWaiting ~> ~FreeSlotAndWaiting)

\* a transfer has ended, its slot is free again and a task waits
C6_Witness ==
  /\ FreeSlotAndWaiting
  /\ \E id \in DOMAIN fileMap : fileMap[id].status \in {UPLOADED, FAILED}

\* C7: no task is admitted while a task before it in filesIds stays NOT_STARTED.
C7_AdmissionIsFifo ==
  [][\A i, k \in DOMAIN filesIds :
       (i < k /\ Admitted(filesIds[k])) =>
          ~(filesIds[i] \in DOMAIN fileMap' /\ fileMap'[filesIds[i]].status = NOT_STARTED)]_vars

\* the second task of the list transfers after the first one has ended
C7_Witness ==
  /\ Len(filesIds) >= 2
  /\ fileMap[filesIds[1]].status \in {UPLOADED, FAILED}
  /\ fileMap[filesIds[2]].status = UPLOADING

StatusStep(a, b) ==
  \/ a = b
  \/ a = NOT_STARTED /\ b = UPLOADING
  \/ a = UPLOADING /\ b \in {UPLOADED, FAILED, CANCELLED}

\* C8: a record is created NOT_STARTED and its status only moves
\* NOT_STARTED -> UPLOADING -> {UPLOADED, FAILED, CANCELLED}.
C8_StatusMachine ==
  [][/\ \A id \in DOMAIN fileMap' \ DOMAIN fileMap : fileMap'[id].status = NOT_STARTED
     /\ \A id \in DOMAIN fileMap \cap DOMAIN fileMap' :
          StatusStep(fileMap[id].status, fileMap'[id].status)]_vars

\* one task has ended UPLOADED and another FAILED
C8_Witness ==
  \E id, other \in DOMAIN fileMap :
    fileMap[id].status = UPLOADED /\ fileMap[other].status = FAILED

\* C9: the catch handler (toast.error and setFileUploadStatus(FAILED)) never runs
\* for a transfer that ended because its controller was aborted.
C9_AbortIsNotAFailure == \A t \in toasts : t[2] # "Upload aborted"

\* C10: the step that deletes the record of a transferring task aborts its
\* controller and its transfers in flight, and takes the id out of filesIds and
\* of activeUploads.
C10_RemoveActiveFile ==
  [][\A id \in DOMAIN fileMap :
       (fileMap[id].status = UPLOADING /\ id \notin DOMAIN fileMap') =>
          /\ id \in aborted'
          /\ id \notin Range(filesIds')
          /\ id \notin activeUploads'
          /\ \A i \in DOMAIN parts'[id] : parts'[id][i] \notin InFlight]_vars

\* removeFile has just aborted a transfer in flight, and other tasks remain
C10_Witness ==
  /\ filesIds # <<>>
  /\ \E id \in aborted : toasts = {<<id, "Upload aborted">>}

\* the uploadFile call of id, one of its transfers or its timer moves in this step
EngineActs(id) ==
  pc'[id] # pc[id] \/ parts'[id] # parts[id] \/ timer'[id] # timer[id]

\* C11: a cancelled task (its controller is aborted) has no record and is not
\* active; setProgress and setFileUploadStatus for an id without a record return
\* the record map they were given; and a step of the cancelled task's engine (a
\* query answering, a transfer settling, the call returning or throwing) leaves
\* the id list, the record map, the current id and the active set as they were.
C11_CancelledEngineLeavesStore ==
  /\ [](\A id \in aborted : id \notin DOMAIN fileMap /\ id \notin activeUploads)
  /\ [](\A id \in Ids \ DOMAIN fileMap :
          /\ \A progress \in ProgressValues : setProgress(fileMap, id, progress) = fileMap
          /\ \A status \in FileUploadStatus : setFileUploadStatus(fileMap, id, status) = fileMap
          /\ removeActiveUpload(activeUploads, id) = activeUploads)
  /\ [][\A id \in aborted : EngineActs(id) => UNCHANGED storeVars]_vars

\* the call of a cancelled task has gone on to its parts and is about to return
\* or throw, while another task still has a record
C11_Witness ==
  \E id \in aborted :
    /\ pc[id] \in {"parts", "create", "delete"}
    /\ timer[id]
    /\ fileMap # EmptyMap

\* the sequence numbers handed to p-limit
Scheduled(ps) == {i \in DOMAIN ps : ps[i] \in {"queued", "inflight"}}

\* C12: when the resume query answers with K of the N sequence numbers of the
\* file, the part loop schedules exactly the N - K others; and a sequence number
\* of the resume record is never transferred by this call.
C12_ResumeSchedulesTheRest ==
  /\ [][\A id \in Ids, size \in 1..MaxResumeSize :
          \A uploaded \in SUBSET (1..totalParts(size)) :
             ResumeDone(id, size, uploaded) =>
               /\ Scheduled(parts'[id]) = (1..totalParts(size)) \ uploaded
               /\ Cardinality(Scheduled(parts'[id]))
                    = totalParts(size) - Cardinality(uploaded)]_vars
  /\ [][\A id \in Ids : \A i \in DOMAIN parts[id] :
          parts[id][i] = "committed" =>
            (i \in DOMAIN parts'[id] => parts'[id][i] \notin InFlight \cup {"queued", "done"})]_vars

\* a resumed call for a file of three parts: one sequence number came from the
\* resume record, one has been transferred and one is in flight
C12_Witness ==
  \E id \in Ids :
    /\ pc[id] = "parts"
    /\ Len(parts[id]) >= 3
    /\ \E i, j, k \in DOMAIN parts[id] :
         parts[id][i] = "committed" /\ parts[id][j] = "done" /\ parts[id][k] \in InFlight

\* C13: a task whose status is UPLOADED has progress 100.
C13_UploadedHasFullProgress ==
  \A id \in DOMAIN fileMap : fileMap[id].status = UPLOADED => fileMap[id].progress = 100

\* C14: once the create-file request has succeeded, the call ends by returning
\* normally whatever becomes of the DELETE: no error is reported and the task,
\* if it still has its record, ends UPLOADED.
C14_DeleteFailureIsSwallowed ==
  [][\A id \in Ids :
       (pc[id] = "delete" /\ pc'[id] = "idle") =>
          /\ toasts' = {}
          /\ id \in DOMAIN fileMap => fileMap'[id].status = UPLOADED]_vars

\* the DELETE of the resume record of id is sent in this step
DeleteIssued(id) == pc[id] # "delete" /\ pc'[id] = "delete"

\* C15: the DELETE of the resume record is sent only when the create-file
\* request of the same call has just succeeded, and never by a call whose task
\* was cancelled.
C15_DeleteOnlyAfterCreate ==
  [][\A id \in Ids : DeleteIssued(id) => (pc[id] = "create" /\ id \notin aborted)]_vars

\* C16: two attempts get the same uploadId exactly when they agree on path, file
\* name, file size, last-modified time and user.
C16_ResumeIdInjective ==
  resumeIds # <<>> => ((resumeIds[1] = resumeIds[2]) <=> (attempt[1] = attempt[2]))

\* C17: a guard that lets the upload go on, its query (if it made one) having
\* been answered, runs for a name the destination does not hold: a name the
\* destination holds ends the call with "File already exists".
C17_GuardIsAuthoritative ==
  (guard # <<>> /\ guard.stage = "proceeds" /\ guard.answer \in {"none", "ok"}) =>
     guard.name \notin destination

\* C18: when the existence query of the guard is rejected, the call goes on to
\* the resume query, and nothing is written to the cache; only an answer that
\* lists the name ends the call.
C18_GuardFailureIsSwallowed ==
  /\ [](guard # <<>> /\ guard.answer = "throw" => guard.stage \in {"proceeds", "uploaded"})
  /\ [][\A answer \in Answers :
          (GuardAnswer(answer) /\ guard'.stage = "throws") =>
             (answer = "ok" /\ guard.name \in destination)]_vars
  /\ [][GuardAnswer("throw") => cache' = cache]_vars

\* the query for a name the destination holds was rejected
C18_Witness ==
  /\ guard # <<>>
  /\ guard.answer = "throw"
  /\ guard.name \in destination

C20_BatchCheckPartitions ==
  checked # <<>> =>
     /\ Len(checked.toUpload) + Len(checked.alreadyExists) = Len(checked.files)
     /\ Range(checked.toUpload) \cup Range(checked.alreadyExists) = 1..Len(checked.files)
     /\ Range(checked.toUpload) \cap Range(checked.alreadyExists) = {}

\* a list with a repeated name, of which both copies exist and a third file does not
C20_Witness ==
  /\ checked # <<>>
  /\ \E i, j \in Range(checked.alreadyExists) : i # j /\ checked.files[i] = checked.files[j]
  /\ checked.toUpload # <<>>

\* C21: get(path, name) for an entry stored at T0 with ttl t returns the stored
\* result at every time T with T - T0 < t and a miss at every time T with
\* T - T0 >= t, the time T - T0 = t included: a guard that starts while the cache
\* holds an entry for its name queries the destination exactly when the entry
\* is at least DEFAULT_TTL old.
C21_CacheExpiry ==
  [][\A name \in FileNames :
       (GuardStart(name) /\ name \in DOMAIN cache) =>
          (guard'.stage = "query" <=> now - cache[name].timestamp >= DEFAULT_TTL)]_vars

\* the tasks whose catch handler runs in this step for an error of the engine
\* itself (the guard, the resume query, a part, create-file, the DELETE)
FailingIds == {t[1] : t \in {u \in toasts' : u[2] # "Upload aborted"}}

\* C22: a step in which the engine of some tasks fails sets the status of those
\* tasks to FAILED and takes them out of the active set; the id list, the
\* cancel tokens, and the record, the active-set membership and the engine of
\* every other task are as before.
C22_FailureIsScoped ==
  [][FailingIds # {} =>
       /\ filesIds' = filesIds
       /\ DOMAIN fileMap' = DOMAIN fileMap
       /\ aborted' = aborted
       /\ \A id \in FailingIds :
            /\ id \notin activeUploads'
            /\ id \in DOMAIN fileMap => fileMap'[id].status = FAILED
       /\ \A id \in Ids \ FailingIds :
            /\ id \in DOMAIN fileMap => fileMap'[id] = fileMap[id]
            /\ id \in activeUploads' <=> id \in activeUploads
            /\ pc'[id] = pc[id] /\ parts'[id] = parts[id] /\ timer'[id] = timer[id]]_vars

\* a task has just failed while another task has been admitted before or since
C22_Witness ==
  \E t \in toasts : \E other \in DOMAIN fileMap :
    /\ t[2] # "Upload aborted"
    /\ t[1] \in DOMAIN fileMap
    /\ fileMap[t[1]].status = FAILED
    /\ other # t[1]
    /\ fileMap[other].status # NOT_STARTED

\* the part transfers of id that are in flight
InFlightParts(id) == {i \in DOMAIN parts[id] : parts[id][i] \in InFlight}

\* the part transfers in flight, over all files
TotalInFlight ==
  LET count[n \in 0..MaxFiles] ==
        IF n = 0 THEN 0 ELSE count[n - 1] + Cardinality(InFlightParts(n))
  IN count[MaxFiles]

\* no file has more than uploadConcurrency part transfers in flight
PerFileWithinLimit == \A id \in Ids : Cardinality(InFlightParts(id)) <= uploadConcurrency

\* C23: no file has more than uploadConcurrency part transfers in flight, and
\* the part transfers in flight over all files are at most
\* maxConcurrentFiles * uploadConcurrency.
C23_NestedConcurrency ==
  /\ PerFileWithinLimit
  /\ TotalInFlight <= maxConcurrentFiles * uploadConcurrency

\* C29: no create-file request is submitted for a task whose controller was
\* aborted before.
C29_NoCreateAfterCancel ==
  [][\A id \in aborted : pc'[id] = "create" => pc[id] = "create"]_vars

\* the uploadFile calls that have not returned or thrown
RunningEngines == {id \in Ids : pc[id] # "idle"}

\* C30: at most maxConcurrentFiles uploadFile calls are running.
C30_RunningEnginesWithinLimit == Cardinality(RunningEngines) <= maxConcurrentFiles

\* C24: the progress of a record is within 0..100, is 0 when the record is
\* created, and does not decrease in a step that leaves the record UPLOADING.
C24_ProgressIsMonotone ==
  [][/\ \A id \in DOMAIN fileMap' :
          /\ fileMap'[id].progress >= 0
          /\ fileMap'[id].progress <= 100
          /\ id \notin DOMAIN fileMap => fileMap'[id].progress = 0
     /\ \A id \in DOMAIN fileMap \cap DOMAIN fileMap' :
          (fileMap[id].status = UPLOADING /\ fileMap'[id].status = UPLOADING) =>
             fileMap'[id].progress >= fileMap[id].progress]_vars

\* progress has been pushed twice for a file of three parts in transfer
C24_Witness ==
  \E id \in DOMAIN fileMap :
    /\ fileMap[id].status = UPLOADING
    /\ fileMap[id].progress > 50
    /\ fileMap[id].progress < 100
    /\ Len(parts[id]) = 3
    /\ \E i \in DOMAIN parts[id] : parts[id][i] = "half"

\* the name n cut before its last dot: <<base, ext>>, ext empty when n has no dot
SplitAtLastDot(n) ==
  CHOOSE p \in {<<SubSeq(n, 1, i), SubSeq(n, i + 1, Len(n))>> : i \in 0..Len(n)} :
    \/ p[2] = <<>> /\ "." \notin Range(n)
    \/ p[2] # <<>> /\ p[2][1] = "." /\ "." \notin Range(Tail(p[2]))

\* "base (k)ext"
Numbered(n, k) ==
  SplitAtLastDot(n)[1] \o <<" ", "(">> \o toString(k) \o <<")">> \o SplitAtLastDot(n)[2]

\* the counters the loop tries whose numbered name is free
FreeCounters ==
  {k \in 1..(SAFETY_LIMIT - 1) : Numbered(renameArgs[1], k) \notin renameArgs[2]}

\* C25: generateUniqueFilename returns the name itself when it is not in the set;
\* else, when one of the numbered names the loop tries is free, it returns the
\* one with the smallest counter, which is not in the set.
C25_UniqueName ==
  renamed # <<>> =>
    /\ renameArgs[1] \notin renameArgs[2] => renamed = renameArgs[1]
    /\ (renameArgs[1] \in renameArgs[2] /\ FreeCounters # {}) =>
         /\ renamed = Numbered(renameArgs[1],
                               CHOOSE k \in FreeCounters : \A j \in FreeCounters : k <= j)
         /\ renamed \notin renameArgs[2]

\* a name with two dots, taken with its first numbered form, gets the second
C25_Witness ==
  /\ renamed = <<"a", ".", "b", " ", "(", "2", ")", ".", "t">>
  /\ renameArgs[1] = <<"a", ".", "b", ".", "t">>
  /\ {renameArgs[1], <<"a", ".", "b", " ", "(", "1", ")", ".", "t">>} \subseteq renameArgs[2]

\* C26: generateUniqueFilename never returns a name of the set it was given.
C26_ExhaustedRename == renamed # <<>> => renamed \notin renameArgs[2]

\* C27: setProgress(id, p) on a task of the store leaves p as the stored progress
\* when p is at least 1 above the stored value or p is 100, and leaves the stored
\* value as it was otherwise.
C27_ProgressThreshold ==
  [][\A id \in DOMAIN fileMap, p \in ProgressValues :
       SetProgress(id, p) =>
         fileMap'[id].progress =
           IF p - fileMap[id].progress >= 1 \/ p = 100 THEN p ELSE fileMap[id].progress]_vars

\* C28: setDuplicates leaves every candidate with the resolution skip and isOpen
\* true exactly when the list is not empty; after every step a candidate whose
\* resolution is rename has a newName; updateAction with an index outside the
\* list changes nothing.
C28_DuplicateStore ==
  [][/\ \A items \in DuplicateLists :
          SetDuplicates(items) =>
            /\ \A i \in DOMAIN duplicates' : duplicates'[i].action = "skip"
            /\ isOpen' <=> duplicates' # <<>>
     /\ \A i \in DOMAIN duplicates' :
          duplicates'[i].action = "rename" => duplicates'[i].newName # <<>>
     /\ \A index \in Indexes, action \in Resolutions, newName \in NewNames :
          (UpdateAction(index, action, newName) /\ index + 1 \notin DOMAIN duplicates) =>
             UNCHANGED duplicateVars]_vars

\* C31: payload.parts of the create-file request holds the sequence numbers
\* 1..totalParts, each once and in ascending order.
C31_PayloadListsEveryPart ==
  createParts # <<>> => createParts = Interval(1, totalParts(resumeRecord[1]))

\* the admission effect hands id to uploadFile in this step
Started(id) == snap # <<>> /\ snap' = <<>> /\ id \in Range(filesToStart(snap[1], snap[2]))

\* C32: the effect hands an id to uploadFile only while its record is NOT_STARTED
\* and no call of that id is running, and marks it in the same step; a record
\* that has left NOT_STARTED never returns to it, and an id that has left the
\* store never returns: uploadFile is called at most once for an id.
C32_AdmittedOnce ==
  [][\A id \in Ids :
       /\ Started(id) => (pc[id] = "idle" /\ parts[id] = <<>> /\ Admitted(id))
       /\ (id \in DOMAIN fileMap /\ id \notin NotStartedIds) =>
            ~(id \in DOMAIN fileMap' /\ fileMap'[id].status = NOT_STARTED)
       /\ (id <= nextId /\ id \notin DOMAIN fileMap) => id \notin DOMAIN fileMap']_vars

\* an admission pass is about to run again while the transfer of an earlier
\* admission is in flight and another task waits
C32_Witness ==
  /\ snap # <<>>
  /\ \E id, waiting \in Range(snap[1]) \cap DOMAIN fileMap :
       /\ fileMap[id].status = UPLOADING
       /\ \E i \in DOMAIN parts[id] : parts[id][i] \in InFlight
       /\ waiting \in NotStartedIds

\* C33: when the upload of a name has completed, the cache does not answer
\* exists = false for that name.
C33_CacheKnowsUploaded ==
  (guard # <<>> /\ guard.stage = "uploaded") => cacheGet(cache, guard.name, now) # "absent"

\* C34: the results batchCheckFileExists makes up when its listing request fails
\* are not in the cache: get misses for every name that was asked for.
C34_CacheHoldsReportedOutcomes ==
  (checked # <<>> /\ checked.answer \in {"throw", "error"}) =>
     \A n \in Range(checked.requested) : cacheGet(cache, n, now) = "miss"

\* the task waits or transfers
Pending(id) == id \in DOMAIN fileMap /\ fileMap[id].status \in {NOT_STARTED, UPLOADING}

\* C35: every task that waits or transfers ends UPLOADED or FAILED or leaves the
\* store, and when no task waits the active set becomes empty (unless a new
\* task is enqueued first).
C35_EveryTaskEnds ==
  /\ \A id \in Ids : Pending(id) ~> ~Pending(id)
  /\ (NotStartedIds = {} /\ activeUploads # {}) ~> (activeUploads = {} \/ NotStartedIds # {})

\* two tasks have been through the queue, one after the other, and the store is idle
C35_Witness ==
  /\ Len(filesIds) >= 2
  /\ \A id \in Ids : ~Pending(id) /\ pc[id] = "idle"
  /\ \E id \in DOMAIN fileMap : fileMap[id].status = UPLOADED
  /\ activeUploads = {}

====
